---- MODULE Spec2Model ----
(***************************************************************************)
(* Classroom/Desk API (src/main.py, src/models/desk.py,                    *)
(* src/models/classroom.py): two module-level dicts, `desks` and           *)
(* `classrooms`, and the twelve FastAPI routes over them.                  *)
(*                                                                         *)
(* Each handler of main.py is an operator of the same name that maps the   *)
(* two dicts and the handler's arguments to its outcome (HTTP status,      *)
(* returned value, the two dicts afterwards).  Each route is an action     *)
(* that validates the request body as FastAPI does from the parameter's    *)
(* pydantic type, runs the handler and keeps the response in `last`.       *)
(*                                                                         *)
(* Python's None is the string None; no label, room number, ... of the     *)
(* input sets equals it.  A dict is a function from its keys.  A pydantic  *)
(* model instance is a record of its fields; an instance of an update      *)
(* model also carries fields_set (pydantic's model_fields_set), which      *)
(* model_dump(exclude_unset=True) reads.                                   *)
(*                                                                         *)
(* The handlers are plain `def` functions, which FastAPI runs on worker    *)
(* threads; no lock guards the dicts.  SpecThreads runs the desk handlers  *)
(* statement by statement on NThreads threads: `threads` holds each        *)
(* thread's request, position, locals and response.                        *)
(***************************************************************************)
EXTENDS Integers, Sequences, FiniteSets

VARIABLES desks, classrooms, now, last, threads

vars == <<desks, classrooms, now, last, threads>>

\* ---------------------------------------------------------------- bounds
\* The clock (datetime.utcnow) takes the values 0..MaxTime.
MaxTime == 1

\* The worker threads that run handlers at the same time.
NThreads == 2

\* ---------------------------------------------------------------- values
None == "None"

\* what a client may send as hand_config: the two valid values and another
RawHands == {"Left", "Right", "Up"}

Buildings == {"NWC"}

\* ---------------------------------------------------------------- python
\* dict.update with the keys of d winning (setdefault on every key): a patch
\* would change nothing that is stored
DictUpdate_keep(d, other) ==
    [k \in DOMAIN d \cup DOMAIN other |-> IF k \in DOMAIN d THEN d[k] ELSE other[k]]

\* dict.update(other): other's keys win
DictUpdate(d, other) ==
    [k \in DOMAIN d \cup DOMAIN other |-> IF k \in DOMAIN other THEN other[k] ELSE d[k]]

\* store[key] = value
SetItem(store, key, value) ==
    [k \in DOMAIN store \cup {key} |-> IF k = key THEN value ELSE store[k]]

\* del store[key]
\* a `del` that empties the dict
DelItem_clear(store, key) == [k \in {} |-> store[k]]

DelItem(store, key) == [k \in DOMAIN store \ {key} |-> store[k]]

\* list(store.values()), as the set of the records (every claim about List is
\* order-independent)
Values(store) == {store[k] : k \in DOMAIN store}

EmptyDict == [k \in {} |-> None]

\* ---------------------------------------------------------------- desk.py
\* DeskConfig = Annotated[str, StringConstraints(pattern=r"^(Left|Right)$")]
DeskConfig(v) == v \in {"Left", "Right"}

\* a required `str` field: present and not None
IsStr(d, f) == f \in DOMAIN d /\ d[f] # None

\* DeskBase(**d) raises no ValidationError: label: str, hand_config: DeskConfig
DeskBase_ok(d) == IsStr(d, "label") /\ IsStr(d, "hand_config") /\ DeskConfig(d.hand_config)

\* DeskBase(**d): id defaults to uuid4(), here the value uuid
DeskBase(d, uuid) ==
    [id |-> IF "id" \in DOMAIN d THEN d.id ELSE uuid,
     label |-> d.label,
     hand_config |-> d.hand_config]

\* DeskCreate adds no field and no validator to DeskBase
DeskCreate_ok(d) == DeskBase_ok(d)

DeskCreate(d, uuid) == DeskBase(d, uuid)

\* a DeskRead whose hand_config is a plain `str`, as DeskUpdate's is
DeskRead_ok_str(d) == "label" \in DOMAIN d /\ "hand_config" \in DOMAIN d

\* DeskRead(**d) raises no ValidationError
DeskRead_ok(d) == DeskBase_ok(d)

\* a DeskRead whose two timestamps default in the other order
DeskRead_swapped(d, uuid, t1, t2) ==
    [id |-> IF "id" \in DOMAIN d THEN d.id ELSE uuid,
     label |-> d.label,
     hand_config |-> d.hand_config,
     created_at |-> IF "created_at" \in DOMAIN d THEN d.created_at ELSE t2,
     updated_at |-> IF "updated_at" \in DOMAIN d THEN d.updated_at ELSE t1]

\* DeskRead(**d): created_at and updated_at default to datetime.utcnow(), read
\* in this order (t1 then t2); a value given in d is kept
DeskRead(d, uuid, t1, t2) ==
    [id |-> IF "id" \in DOMAIN d THEN d.id ELSE uuid,
     label |-> d.label,
     hand_config |-> d.hand_config,
     created_at |-> IF "created_at" \in DOMAIN d THEN d.created_at ELSE t1,
     updated_at |-> IF "updated_at" \in DOMAIN d THEN d.updated_at ELSE t2]

\* model.model_dump() of a DeskBase, DeskCreate or DeskRead: the dict of all
\* its fields
model_dump(m) == [f \in DOMAIN m |-> m[f]]

\* update.model_dump(exclude_unset=True) of a DeskUpdate: only the fields the
\* client sent, a field sent as null included
DeskUpdate_dump_set(update) == [f \in update.fields_set |-> update[f]]

\* ---------------------------------------------------------------- responses
\* raise HTTPException(status_code, detail), or an exception no handler
\* catches (500): the dicts are as they were
Raise(D, C, status, detail) ==
    [status |-> status, result |-> detail, desks |-> D, classrooms |-> C]

Return(D, C, status, result) ==
    [status |-> status, result |-> result, desks |-> D, classrooms |-> C]

\* ---------------------------------------------------------------- desk handlers
\* a create_desk without the conflict check, as create_classroom is
create_desk_overwrite(D, C, desk, t1, t2) ==
    [status |-> 201,
     result |-> [id |-> desk.id, label |-> desk.label, hand_config |-> desk.hand_config,
                 created_at |-> t1, updated_at |-> t2],
     desks |-> [k \in DOMAIN D \cup {desk.id} |->
                   IF k = desk.id
                   THEN [id |-> desk.id, label |-> desk.label,
                         hand_config |-> desk.hand_config,
                         created_at |-> t1, updated_at |-> t2]
                   ELSE D[k]],
     classrooms |-> C]

create_desk(D, C, desk, t1, t2) ==
    IF desk.id \in DOMAIN D
    THEN Raise(D, C, 400, "Desk with this ID already exists")
    ELSE LET D1 == SetItem(D, desk.id, DeskRead(model_dump(desk), desk.id, t1, t2))
         IN  Return(D1, C, 201, D1[desk.id])

\* label, hand_config: Optional[str] query parameters, None when not given
list_desks(D, C, label, hand_config) ==
    LET r0 == Values(D)
        r1 == IF label # None THEN {a \in r0 : a.label = label} ELSE r0
        r2 == IF hand_config # None THEN {a \in r1 : a.hand_config = hand_config} ELSE r1
    IN  Return(D, C, 200, r2)

get_desk(D, C, desk_id) ==
    IF desk_id \notin DOMAIN D
    THEN Raise(D, C, 404, "Desk not found")
    ELSE Return(D, C, 200, D[desk_id])

update_desk(D, C, desk_id, update, t1, t2) ==
    IF desk_id \notin DOMAIN D
    THEN Raise(D, C, 404, "Desk not found")
    ELSE LET stored == DictUpdate(model_dump(D[desk_id]), DeskUpdate_dump_set(update))
         IN  IF ~DeskRead_ok(stored)
             THEN Raise(D, C, 500, "ValidationError")
             ELSE LET D1 == SetItem(D, desk_id, DeskRead(stored, desk_id, t1, t2))
                  IN  Return(D1, C, 200, D1[desk_id])

\* a replace_desk that builds the new record afresh, created_at reset
replace_desk_fresh(D, C, desk_id, desk, t1, t2) ==
    LET new_desk == [id |-> desk_id, label |-> desk.label,
                     hand_config |-> desk.hand_config,
                     created_at |-> t1, updated_at |-> t1]
    IN  [status |-> IF desk_id \in DOMAIN D THEN 200 ELSE 201,
         result |-> new_desk,
         desks |-> [k \in DOMAIN D \cup {desk_id} |->
                       IF k = desk_id THEN new_desk ELSE D[k]],
         classrooms |-> C]

replace_desk(D, C, desk_id, desk, t1, t2) ==
    IF desk_id \notin DOMAIN D
    THEN LET new_desk_data == DictUpdate(model_dump(desk), [id |-> desk_id])
         IN  IF ~DeskCreate_ok(new_desk_data)
             THEN Raise(D, C, 500, "ValidationError")
             ELSE LET out == create_desk(D, C, DeskCreate(new_desk_data, desk_id), t1, t2)
                  IN  \* the PUT route has no status_code: a success is a 200
                      IF out.status = 201 THEN [out EXCEPT !.status = 200] ELSE out
    ELSE LET stored == D[desk_id]
             new_data == model_dump(desk)
             new_desk == [id |-> desk_id,
                          label |-> new_data.label,
                          hand_config |-> new_data.hand_config,
                          created_at |-> stored.created_at,
                          updated_at |-> t1]
         IN  Return(SetItem(D, desk_id, new_desk), C, 200, new_desk)

delete_desk(D, C, desk_id) ==
    IF desk_id \notin DOMAIN D
    THEN Raise(D, C, 404, "Desk not found")
    ELSE Return(DelItem(D, desk_id), C, 200, "Desk deleted successfully")

\* ---------------------------------------------------------------- classroom.py
\* An Optional[List[...]] value: None, or a list
NoneList == [is_none |-> TRUE, items |-> <<>>]

SomeList(items) == [is_none |-> FALSE, items |-> items]

\* model_dump() of an embedded DeskBase: the dict of its three fields
DeskBase_dump(desk) ==
    [id |-> desk.id, label |-> desk.label, hand_config |-> desk.hand_config]

\* model_dump(exclude_unset=True) of an embedded DeskBase: exclude_unset
\* reaches nested models, and an id that default_factory made is not set
DeskBase_dump_set(desk) == [f \in desk.fields_set |-> desk[f]]

\* ClassroomRead/ClassroomCreate .model_dump(): desks become a list of dicts
Classroom_dump(m) ==
    [f \in DOMAIN m |->
        IF f = "desks"
        THEN SomeList([i \in 1..Len(m.desks) |-> DeskBase_dump(m.desks[i])])
        ELSE m[f]]

\* update.model_dump(exclude_unset=True) of a ClassroomUpdate
ClassroomUpdate_dump_set(update) ==
    [f \in update.fields_set |->
        IF f = "desks" /\ ~update.desks.is_none
        THEN SomeList([i \in 1..Len(update.desks.items) |->
                          DeskBase_dump_set(update.desks.items[i])])
        ELSE update[f]]

\* desks: List[DeskBase] raises no ValidationError: not None, every item a
\* valid DeskBase; the field has default_factory=list
DeskList_ok(d) ==
    "desks" \in DOMAIN d =>
        /\ ~d.desks.is_none
        /\ \A i \in 1..Len(d.desks.items) : DeskBase_ok(d.desks.items[i])

\* ClassroomBase(**d) raises no ValidationError: room_no: str, building: str,
\* university: Optional[str] = None, desks: List[DeskBase]
ClassroomBase_ok(d) == IsStr(d, "room_no") /\ IsStr(d, "building") /\ DeskList_ok(d)

ClassroomCreate_ok(d) == ClassroomBase_ok(d)

ClassroomRead_ok(d) == ClassroomBase_ok(d)

\* the desks of ClassroomBase(**d); gen[i] is the uuid4() drawn for item i
DeskList(d, gen) ==
    IF "desks" \in DOMAIN d
    THEN [i \in 1..Len(d.desks.items) |-> DeskBase(d.desks.items[i], gen[i])]
    ELSE <<>>

\* ClassroomRead(**d)
ClassroomRead(d, uuid, gen, t1, t2) ==
    [id |-> IF "id" \in DOMAIN d THEN d.id ELSE uuid,
     room_no |-> d.room_no,
     building |-> d.building,
     university |-> IF "university" \in DOMAIN d THEN d.university ELSE None,
     desks |-> DeskList(d, gen),
     created_at |-> IF "created_at" \in DOMAIN d THEN d.created_at ELSE t1,
     updated_at |-> IF "updated_at" \in DOMAIN d THEN d.updated_at ELSE t2]

\* ---------------------------------------------------------------- classroom handlers
create_classroom(D, C, classroom, gen, t1, t2) ==
    LET classroom_read == ClassroomRead(Classroom_dump(classroom), classroom.id, gen, t1, t2)
    IN  Return(D, SetItem(C, classroom_read.id, classroom_read), 201, classroom_read)

\* p.room_no, p.building, p.university, p.desks of an item of results: an
\* AttributeError when the item has no such attribute
HasAttr(results, f) == \A p \in results : f \in DOMAIN p

AnyDesk(p, f, v) == \E i \in 1..Len(p.desks) : p.desks[i][f] = v

\* the five filters are applied in turn; each one given is either applied or,
\* when an item lacks the attribute it reads, ends the request
list_classrooms(D, C, room_no, building, university, label, hand_config) ==
    LET r0 == Values(D)
        e1 == room_no # None /\ ~HasAttr(r0, "room_no")
        r1 == IF room_no # None /\ ~e1 THEN {p \in r0 : p.room_no = room_no} ELSE r0
        e2 == e1 \/ (building # None /\ ~HasAttr(r1, "building"))
        r2 == IF building # None /\ ~e2 THEN {p \in r1 : p.building = building} ELSE r1
        e3 == e2 \/ (university # None /\ ~HasAttr(r2, "university"))
        r3 == IF university # None /\ ~e3 THEN {p \in r2 : p.university = university} ELSE r2
        e4 == e3 \/ (label # None /\ ~HasAttr(r3, "desks"))
        r4 == IF label # None /\ ~e4 THEN {p \in r3 : AnyDesk(p, "label", label)} ELSE r3
        e5 == e4 \/ (hand_config # None /\ ~HasAttr(r4, "desks"))
        r5 == IF hand_config # None /\ ~e5
              THEN {p \in r4 : AnyDesk(p, "hand_config", hand_config)} ELSE r4
    IN  IF e5 THEN Raise(D, C, 500, "AttributeError") ELSE Return(D, C, 200, r5)

get_classrooom(D, C, classroom_id) ==
    IF classroom_id \notin DOMAIN C
    THEN Raise(D, C, 404, "Classroom not found")
    ELSE Return(D, C, 200, C[classroom_id])

update_classroom(D, C, classroom_id, update, gen, t1, t2) ==
    IF classroom_id \notin DOMAIN C
    THEN Raise(D, C, 404, "Classroom not found")
    ELSE LET stored == DictUpdate(Classroom_dump(C[classroom_id]),
                                  ClassroomUpdate_dump_set(update))
         IN  IF ~ClassroomRead_ok(stored)
             THEN Raise(D, C, 500, "ValidationError")
             ELSE LET C1 == SetItem(C, classroom_id,
                                    ClassroomRead(stored, classroom_id, gen, t1, t2))
                  IN  Return(D, C1, 200, C1[classroom_id])

replace_classroom(D, C, classroom_id, classroom, gen, t1, t2) ==
    IF classroom_id \notin DOMAIN C
    THEN LET new_classroom_data ==
                 DictUpdate(Classroom_dump(classroom), [id |-> classroom_id])
         IN  IF ~DeskCreate_ok(new_classroom_data)
             THEN Raise(D, C, 500, "ValidationError")
             ELSE create_desk(D, C, DeskCreate(new_classroom_data, classroom_id), t1, t2)
    ELSE LET stored == C[classroom_id]
             new_data == Classroom_dump(classroom)
             new_classroom ==
                 ClassroomRead([id |-> classroom_id,
                                room_no |-> new_data.room_no,
                                building |-> new_data.building,
                                university |-> new_data.university,
                                desks |-> new_data.desks,
                                created_at |-> stored.created_at,
                                updated_at |-> t1],
                               classroom_id, gen, t1, t1)
         IN  Return(D, SetItem(C, classroom_id, new_classroom), 200, new_classroom)

delete_classroom(D, C, classroom_id) ==
    IF classroom_id \notin DOMAIN C
    THEN Raise(D, C, 404, "Classroom not found")
    ELSE Return(D, DelItem(C, classroom_id), 200, "Classroom deleted successfully")

\* ---------------------------------------------------------------- requests
\* Embedded desks a client may send: one with an id, one without, one that is
\* no Left/Right desk
deskA == [id |-> "u1", label |-> "12H", hand_config |-> "Left"]

deskN == [label |-> "12J", hand_config |-> "Right"]

deskUp == [id |-> "u1", label |-> "12H", hand_config |-> "Up"]

\* The requests of a specification are drawn from a universe U: the ids, the
\* labels, room numbers, universities and embedded desk lists clients send,
\* and whether the clock moves (adv).
\* One id per store, every value, the clock moving.
One ==
    [ids |-> {"u1"}, labels |-> {"12H", "12J"}, rooms |-> {"501", "602"},
     univs |-> {"Columbia", None},
     lists |-> {<<>>, <<deskA, deskN>>, <<deskUp>>}, adv |-> TRUE]

\* Two ids per store, fewer classroom values, one reading of the clock.
Two ==
    [ids |-> {"u1", "u2"}, labels |-> {"12H", "12J"}, rooms |-> {"501"},
     univs |-> {None},
     lists |-> {<<>>, <<deskA, deskN>>, <<deskUp>>}, adv |-> FALSE]

\* JSON bodies of POST/PUT /desks: id is optional (default_factory=uuid4)
DeskBodies(U) ==
    [id : U.ids, label : U.labels, hand_config : RawHands]
        \cup [label : {"12H"}, hand_config : {"Right"}]

\* DeskUpdate: label and hand_config are Optional[str] with default None, so
\* any string and null pass its validation (hand_config is NOT a DeskConfig)
DeskUpdates(U) ==
    {u \in [label : U.labels \cup {None},
            hand_config : RawHands \cup {None},
            fields_set : SUBSET {"label", "hand_config"}] :
        \A f \in {"label", "hand_config"} : f \notin u.fields_set => u[f] = None}

\* JSON bodies of POST/PUT /classrooms
ClassroomBodies(U) ==
    [id : U.ids, room_no : U.rooms, building : Buildings,
     university : U.univs, desks : {SomeList(l) : l \in U.lists}]
        \cup [room_no : {"501"}, building : Buildings,
              university : {None}, desks : {SomeList(<<>>)}]

\* JSON bodies of PATCH /classrooms/{id}: fields_set are the keys sent, a key
\* sent as null included; the bodies drawn send desks, one of the three
\* strings, both or neither
ClassroomPatches(U) ==
    {u \in [room_no : U.rooms \cup {None}, building : Buildings \cup {None},
            university : U.univs,
            desks : {NoneList} \cup {SomeList(l) : l \in U.lists},
            fields_set : SUBSET {"room_no", "building", "university", "desks"}] :
        /\ "room_no" \notin u.fields_set => u.room_no = None
        /\ "building" \notin u.fields_set => u.building = None
        /\ "building" \in u.fields_set => u.building # None
        /\ Cardinality(u.fields_set \ {"desks"}) <= 1
        /\ "university" \notin u.fields_set => u.university = None
        /\ "desks" \notin u.fields_set => u.desks = NoneList}

\* the uuid4() values drawn for the embedded desks of a list that carry no id
\* (gen[i] is not read where item i carries one)
Gens(U, items) ==
    {g \in [1..Len(items) -> U.ids \cup {None}] :
        \A i \in 1..Len(items) : (g[i] = None) <=> ("id" \in DOMAIN items[i])}

\* the uuid4() value drawn for a body that carries no id
Uuid4(U, body) == IF "id" \in DOMAIN body THEN {body.id} ELSE U.ids

\* FastAPI builds the embedded DeskBase instances of a body: an id that was not
\* sent is drawn by default_factory and is not in the instance's fields_set
DeskInstances(items, gen) ==
    [i \in 1..Len(items) |->
        [id |-> DeskBase(items[i], gen[i]).id,
         label |-> items[i].label,
         hand_config |-> items[i].hand_config,
         fields_set |-> DOMAIN items[i]]]

\* the ClassroomCreate instance of a body that passed validation
ClassroomCreate(body, uuid, gen) ==
    [id |-> IF "id" \in DOMAIN body THEN body.id ELSE uuid,
     room_no |-> body.room_no,
     building |-> body.building,
     university |-> body.university,
     desks |-> DeskInstances(body.desks.items, gen)]

\* ClassroomUpdate(**body) raises no ValidationError: the three strings are
\* Optional[str], desks is Optional[List[DeskBase]]
ClassroomUpdate_ok(body) ==
    \A i \in 1..Len(body.desks.items) : DeskBase_ok(body.desks.items[i])

\* the ClassroomUpdate instance of a body that passed validation
ClassroomUpdate(body, gen) ==
    [body EXCEPT !.desks =
        IF body.desks.is_none THEN NoneList
        ELSE SomeList(DeskInstances(body.desks.items, gen))]

\* the instances the handlers can be called with
DeskCreates(U) ==
    {DeskCreate(b, u) : b \in {x \in DeskBodies(U) : DeskCreate_ok(x)}, u \in U.ids}

ClassroomCreates(U) ==
    UNION {{ClassroomCreate(b, u, g) : u \in Uuid4(U, b), g \in Gens(U, b.desks.items)} :
              b \in {x \in ClassroomBodies(U) : ClassroomCreate_ok(x)}}

ClassroomUpdates(U) ==
    UNION {{ClassroomUpdate(b, g) : g \in Gens(U, b.desks.items)} :
              b \in {x \in ClassroomPatches(U) : ClassroomUpdate_ok(x)}}

\* Optional[str] query parameters of the two list routes, None when not sent
LabelFilters == {"12H", None}

HandFilters == {"Left", "Right", None}

RoomFilters == {"501", None}

BuildingFilters == {"NWC", None}

UniversityFilters == {"Columbia", None}

DeskQueries == LabelFilters \X HandFilters

ClassroomQueries ==
    RoomFilters \X BuildingFilters \X UniversityFilters \X LabelFilters \X HandFilters

\* the queries the list routes are requested with: no filter, one, or all
Sent(q) == Cardinality({i \in DOMAIN q : q[i] # None})

SomeQueries(Q) == {q \in Q : Sent(q) <= 1 \/ Sent(q) = Len(q)}

\* ---------------------------------------------------------------- clock
\* datetime.utcnow() read again later in a request: the clock has not gone
\* back; when U.adv is FALSE it has not moved either
Later(U) == IF U.adv THEN now..MaxTime ELSE {now}

\* ---------------------------------------------------------------- routes
\* the response of the request served last
Response(op, status) == [op |-> op, status |-> status]

Respond(op, out, t) ==
    /\ desks' = out.desks
    /\ classrooms' = out.classrooms
    /\ now' = t
    /\ last' = Response(op, out.status)
    /\ UNCHANGED threads

\* the body fails the validation of the parameter's model: 422, and the
\* handler is not called
Reject(op) ==
    /\ UNCHANGED <<desks, classrooms, now, threads>>
    /\ last' = Response(op, 422)

PostDesks(U) ==
    \E body \in DeskBodies(U) :
        IF ~DeskCreate_ok(body)
        THEN Reject("create_desk")
        ELSE \E uuid \in Uuid4(U, body), t2 \in Later(U) :
                LET desk == DeskCreate(body, uuid)
                IN  Respond("create_desk",
                            create_desk(desks, classrooms, desk, now, t2), t2)

GetDesks ==
    \E q \in SomeQueries(DeskQueries) :
        Respond("list_desks", list_desks(desks, classrooms, q[1], q[2]), now)

GetDesk(U) ==
    \E desk_id \in U.ids :
        Respond("get_desk", get_desk(desks, classrooms, desk_id), now)

PatchDesk(U) ==
    \E desk_id \in U.ids, update \in DeskUpdates(U) :
        Respond("update_desk",
                update_desk(desks, classrooms, desk_id, update, now, now), now)

PutDesk(U) ==
    \E desk_id \in U.ids, body \in DeskBodies(U) :
        IF ~DeskCreate_ok(body)
        THEN Reject("replace_desk")
        ELSE \E uuid \in Uuid4(U, body), t2 \in Later(U) :
                Respond("replace_desk",
                        replace_desk(desks, classrooms, desk_id,
                                     DeskCreate(body, uuid), now, t2), t2)

DeleteDesk(U) ==
    \E desk_id \in U.ids :
        Respond("delete_desk", delete_desk(desks, classrooms, desk_id), now)

PostClassrooms(U) ==
    \E body \in ClassroomBodies(U) :
        IF ~ClassroomCreate_ok(body)
        THEN Reject("create_classroom")
        ELSE \E uuid \in Uuid4(U, body), gen \in Gens(U, body.desks.items), t2 \in Later(U) :
                LET classroom == ClassroomCreate(body, uuid, gen)
                IN  Respond("create_classroom",
                            create_classroom(desks, classrooms, classroom, gen, now, t2), t2)

\* response_model=List[ClassroomRead]: FastAPI validates what the handler
\* returned, and an item with no room_no or building fails it (500)
ClassroomList_ok(results) == \A p \in results : IsStr(p, "room_no") /\ IsStr(p, "building")

GetClassrooms ==
    \E q \in SomeQueries(ClassroomQueries) :
        LET out == list_classrooms(desks, classrooms, q[1], q[2], q[3], q[4], q[5])
        IN  IF out.status = 200 /\ ~ClassroomList_ok(out.result)
            THEN Respond("list_classrooms",
                         Raise(desks, classrooms, 500, "ResponseValidationError"), now)
            ELSE Respond("list_classrooms", out, now)

GetClassroom(U) ==
    \E classroom_id \in U.ids :
        Respond("get_classrooom",
                get_classrooom(desks, classrooms, classroom_id), now)

\* gen: the ids drawn when the body is parsed, which exclude_unset drops
\* again (one draw stands for all); gen2: those drawn when the handler builds
\* the ClassroomRead
PatchClassroom(U) ==
    \E classroom_id \in U.ids, body \in ClassroomPatches(U) :
        IF ~ClassroomUpdate_ok(body)
        THEN Reject("update_classroom")
        ELSE \E gen2 \in Gens(U, body.desks.items) :
                LET gen == CHOOSE g \in Gens(U, body.desks.items) : TRUE
                IN  Respond("update_classroom",
                            update_classroom(desks, classrooms, classroom_id,
                                             ClassroomUpdate(body, gen), gen2, now, now), now)

PutClassroom(U) ==
    \E classroom_id \in U.ids, body \in ClassroomBodies(U) :
        IF ~ClassroomCreate_ok(body)
        THEN Reject("replace_classroom")
        ELSE \E uuid \in Uuid4(U, body), gen \in Gens(U, body.desks.items), t2 \in Later(U) :
                Respond("replace_classroom",
                        replace_classroom(desks, classrooms, classroom_id,
                                          ClassroomCreate(body, uuid, gen), gen, now, t2), t2)

DeleteClassroom(U) ==
    \E classroom_id \in U.ids :
        Respond("delete_classroom",
                delete_classroom(desks, classrooms, classroom_id), now)

\* datetime.utcnow() moves on between two requests
Tick ==
    /\ now < MaxTime
    /\ now' = now + 1
    /\ UNCHANGED <<desks, classrooms, last, threads>>

\* ---------------------------------------------------------------- worker threads
Threads == 1..NThreads

\* a parameter or local of a handler that is not bound
NoDesk == [id |-> None, label |-> None, hand_config |-> None]

NoUpdate == [label |-> None, hand_config |-> None, fields_set |-> {}]

\* a thread that has taken no request yet
Idle ==
    [pc |-> "idle", op |-> "none", desk_id |-> None, desk |-> NoDesk,
     update |-> NoUpdate, stored |-> NoDesk, status |-> 0, result |-> None]

\* ---------------------------------------------------------------- specifications
\* both dicts empty (main.py lines 34-35), no request served yet
Init ==
    /\ desks = EmptyDict
    /\ classrooms = EmptyDict
    /\ now = 0
    /\ last = Response("none", 0)
    /\ threads = [t \in Threads |-> Idle]

\* the twelve routes on one id per store, the clock moving
Next ==
    \/ PostDesks(One)
    \/ GetDesks
    \/ GetDesk(One)
    \/ PatchDesk(One)
    \/ PutDesk(One)
    \/ DeleteDesk(One)
    \/ PostClassrooms(One)
    \/ GetClassrooms
    \/ GetClassroom(One)
    \/ PatchClassroom(One)
    \/ PutClassroom(One)
    \/ DeleteClassroom(One)
    \/ Tick

Spec == Init /\ [][Next]_vars

\* the twelve routes on two ids per store, within one reading of the clock
NextStores ==
    \/ PostDesks(Two)
    \/ GetDesks
    \/ GetDesk(Two)
    \/ PatchDesk(Two)
    \/ PutDesk(Two)
    \/ DeleteDesk(Two)
    \/ PostClassrooms(Two)
    \/ GetClassrooms
    \/ GetClassroom(Two)
    \/ PatchClassroom(Two)
    \/ PutClassroom(Two)
    \/ DeleteClassroom(Two)

SpecStores == Init /\ [][NextStores]_vars

\* ---------------------------------------------------------------- handlers on threads
\* The desk handlers run on worker threads.  A step is one statement of the
\* handler that reads or writes the dict `desks`; between two steps of a
\* thread the other threads may run.  `desks[k]` on a key that is gone raises
\* KeyError, which no handler catches (500).
\* The requests the threads serve, on the one id "u1": the body deskA, the
\* patches {label: 12J} and {hand_config: Right}.
ThreadUpdates ==
    {u \in DeskUpdates(One) :
        /\ Cardinality(u.fields_set) = 1
        /\ u.label \in {None, "12J"} /\ u.hand_config \in {None, "Right"}
        /\ \A f \in u.fields_set : u[f] # None}

ThreadRequests ==
    {[op |-> op, desk_id |-> id, desk |-> NoDesk, update |-> NoUpdate] :
        op \in {"list_desks", "get_desk", "delete_desk"}, id \in One.ids}
    \cup {[op |-> op, desk_id |-> deskA.id, desk |-> DeskCreate(deskA, deskA.id),
           update |-> NoUpdate] : op \in {"create_desk", "replace_desk"}}
    \cup {[op |-> "update_desk", desk_id |-> id, desk |-> NoDesk, update |-> u] :
             id \in One.ids, u \in ThreadUpdates}

\* the first statement of each handler
Entry(op) ==
    CASE op = "create_desk" -> "c_check"
      [] op = "list_desks" -> "run"
      [] OTHER -> "check"

At(t, op, pc) == threads[t].op = op /\ threads[t].pc = pc

Goto(t, pc) ==
    /\ threads' = [threads EXCEPT ![t].pc = pc]
    /\ UNCHANGED <<desks, classrooms, now, last>>

\* the handler returns or raises: the response of thread t's request
Finish(t, status, result) ==
    /\ threads' = [threads EXCEPT ![t].pc = "done", ![t].status = status,
                                  ![t].result = result]
    /\ UNCHANGED <<desks, classrooms, now, last>>

\* `desks[key] = value`, then on to pc
Store(t, key, value, pc) ==
    /\ desks' = SetItem(desks, key, value)
    /\ threads' = [threads EXCEPT ![t].pc = pc]
    /\ UNCHANGED <<classrooms, now, last>>

\* a free worker thread takes the next request
Accept(t) ==
    /\ threads[t].pc \in {"idle", "done"}
    /\ \E r \in ThreadRequests :
          threads' = [threads EXCEPT ![t] =
                         [Idle EXCEPT !.pc = Entry(r.op), !.op = r.op,
                                      !.desk_id = r.desk_id, !.desk = r.desk,
                                      !.update = r.update]]
    /\ UNCHANGED <<desks, classrooms, now, last>>

\* create_desk, called by the POST route or by replace_desk
\* if desk.id in desks: raise HTTPException(400)
create_desk_check(t) ==
    /\ threads[t].pc = "c_check"
    /\ IF threads[t].desk.id \in DOMAIN desks
       THEN Finish(t, 400, "Desk with this ID already exists")
       ELSE Goto(t, "c_store")

\* desks[desk.id] = DeskRead(**desk.model_dump())
create_desk_store(t) ==
    /\ threads[t].pc = "c_store"
    /\ LET desk == threads[t].desk
       IN  Store(t, desk.id, DeskRead(model_dump(desk), desk.id, now, now), "c_return")

\* return desks[desk.id]
create_desk_return(t) ==
    /\ threads[t].pc = "c_return"
    /\ IF threads[t].desk.id \notin DOMAIN desks
       THEN Finish(t, 500, "KeyError")
       ELSE Finish(t, IF threads[t].op = "create_desk" THEN 201 ELSE 200,
                   desks[threads[t].desk.id])

\* results = list(desks.values()); return results
list_desks_run(t) ==
    /\ At(t, "list_desks", "run")
    /\ Finish(t, 200, list_desks(desks, classrooms, None, None).result)

\* if desk_id not in desks: raise HTTPException(404)
get_desk_check(t) ==
    /\ At(t, "get_desk", "check")
    /\ IF threads[t].desk_id \notin DOMAIN desks
       THEN Finish(t, 404, "Desk not found")
       ELSE Goto(t, "return")

\* return desks[desk_id]
get_desk_return(t) ==
    /\ At(t, "get_desk", "return")
    /\ IF threads[t].desk_id \notin DOMAIN desks
       THEN Finish(t, 500, "KeyError")
       ELSE Finish(t, 200, desks[threads[t].desk_id])

\* if desk_id not in desks: raise HTTPException(404)
update_desk_check(t) ==
    /\ At(t, "update_desk", "check")
    /\ IF threads[t].desk_id \notin DOMAIN desks
       THEN Finish(t, 404, "Desk not found")
       ELSE Goto(t, "read")

\* stored = desks[desk_id].model_dump(); stored.update(update.model_dump(...))
update_desk_read(t) ==
    /\ At(t, "update_desk", "read")
    /\ IF threads[t].desk_id \notin DOMAIN desks
       THEN Finish(t, 500, "KeyError")
       ELSE /\ threads' = [threads EXCEPT
                  ![t].pc = "store",
                  ![t].stored = DictUpdate(model_dump(desks[threads[t].desk_id]),
                                           DeskUpdate_dump_set(threads[t].update))]
            /\ UNCHANGED <<desks, classrooms, now, last>>

\* desks[desk_id] = DeskRead(**stored)
update_desk_store(t) ==
    /\ At(t, "update_desk", "store")
    /\ IF ~DeskRead_ok(threads[t].stored)
       THEN Finish(t, 500, "ValidationError")
       ELSE Store(t, threads[t].desk_id,
                  DeskRead(threads[t].stored, threads[t].desk_id, now, now), "return")

\* return desks[desk_id]
update_desk_return(t) ==
    /\ At(t, "update_desk", "return")
    /\ IF threads[t].desk_id \notin DOMAIN desks
       THEN Finish(t, 500, "KeyError")
       ELSE Finish(t, 200, desks[threads[t].desk_id])

\* if desk_id not in desks: return create_desk(DeskCreate(**new_desk_data))
replace_desk_check(t) ==
    /\ At(t, "replace_desk", "check")
    /\ IF threads[t].desk_id \notin DOMAIN desks
       THEN LET new_desk_data == DictUpdate(model_dump(threads[t].desk),
                                            [id |-> threads[t].desk_id])
            IN  IF ~DeskCreate_ok(new_desk_data)
                THEN Finish(t, 500, "ValidationError")
                ELSE /\ threads' = [threads EXCEPT
                           ![t].pc = "c_check",
                           ![t].desk = DeskCreate(new_desk_data, threads[t].desk_id)]
                     /\ UNCHANGED <<desks, classrooms, now, last>>
       ELSE Goto(t, "read")

\* stored = desks[desk_id]
replace_desk_read(t) ==
    /\ At(t, "replace_desk", "read")
    /\ IF threads[t].desk_id \notin DOMAIN desks
       THEN Finish(t, 500, "KeyError")
       ELSE /\ threads' = [threads EXCEPT ![t].pc = "store",
                                          ![t].stored = desks[threads[t].desk_id]]
            /\ UNCHANGED <<desks, classrooms, now, last>>

\* desks[desk_id] = new_desk; return new_desk
replace_desk_store(t) ==
    /\ At(t, "replace_desk", "store")
    /\ LET new_data == model_dump(threads[t].desk)
           new_desk == [id |-> threads[t].desk_id,
                        label |-> new_data.label,
                        hand_config |-> new_data.hand_config,
                        created_at |-> threads[t].stored.created_at,
                        updated_at |-> now]
       IN  /\ desks' = SetItem(desks, threads[t].desk_id, new_desk)
           /\ threads' = [threads EXCEPT ![t].pc = "done", ![t].status = 200,
                                         ![t].result = new_desk]
           /\ UNCHANGED <<classrooms, now, last>>

\* if desk_id not in desks: raise HTTPException(404)
delete_desk_check(t) ==
    /\ At(t, "delete_desk", "check")
    /\ IF threads[t].desk_id \notin DOMAIN desks
       THEN Finish(t, 404, "Desk not found")
       ELSE Goto(t, "del")

\* del desks[desk_id]; return {"confirmation": ...}
delete_desk_del(t) ==
    /\ At(t, "delete_desk", "del")
    /\ IF threads[t].desk_id \notin DOMAIN desks
       THEN Finish(t, 500, "KeyError")
       ELSE /\ desks' = DelItem(desks, threads[t].desk_id)
            /\ threads' = [threads EXCEPT ![t].pc = "done", ![t].status = 200,
                                          ![t].result = "Desk deleted successfully"]
            /\ UNCHANGED <<classrooms, now, last>>

\* one statement of one thread
NextThreads ==
    \E t \in Threads :
        \/ Accept(t)
        \/ create_desk_check(t)
        \/ create_desk_store(t)
        \/ create_desk_return(t)
        \/ list_desks_run(t)
        \/ get_desk_check(t)
        \/ get_desk_return(t)
        \/ update_desk_check(t)
        \/ update_desk_read(t)
        \/ update_desk_store(t)
        \/ update_desk_return(t)
        \/ replace_desk_check(t)
        \/ replace_desk_read(t)
        \/ replace_desk_store(t)
        \/ delete_desk_check(t)
        \/ delete_desk_del(t)

SpecThreads == Init /\ [][NextThreads]_vars

\* ---------------------------------------------------------------- claims
\* The claims are stated on the handlers: in every reachable state, for every
\* argument a handler can be called with there (drawn from the universe All,
\* whatever the requests that led to the state), its outcome is as claimed.
All ==
    [ids |-> {"u1", "u2"}, labels |-> {"12H", "12J"}, rooms |-> {"501", "602"},
     univs |-> {"Columbia", None},
     lists |-> {<<>>, <<deskA, deskN>>, <<deskUp>>}, adv |-> TRUE]

\* the bodies, patches and parsed instances of the universe All
AllDeskBodies == DeskBodies(All)

AllDeskUpdates == DeskUpdates(All)

AllDeskCreates == DeskCreates(All)

AllClassroomBodies == ClassroomBodies(All)

AllClassroomPatches == ClassroomPatches(All)

AllClassroomCreates == ClassroomCreates(All)

AllClassroomUpdates == ClassroomUpdates(All)

Success(out) == out.status \in {200, 201}

\* the draws of uuid4() a handler makes for the embedded desks of an update
UpdateGens(update) ==
    IF update.desks.is_none THEN {<<>>}
    ELSE {g \in [1..Len(update.desks.items) -> All.ids \cup {None}] :
            \A i \in 1..Len(update.desks.items) :
                (g[i] = None) <=> ("id" \in update.desks.items[i].fields_set)}

\* r and s are equal but for updated_at
SameButUpdatedAt(r, s) == [r EXCEPT !.updated_at = 0] = [s EXCEPT !.updated_at = 0]

\* ---- the parts of C1
C1_DeskUpdatedAt ==
    \A id \in DOMAIN desks, update \in AllDeskUpdates :
        LET out == update_desk(desks, classrooms, id, update, now, now)
        IN  Success(out) =>
                /\ out.desks[id].updated_at = now
                /\ update.fields_set = {} =>
                      /\ SameButUpdatedAt(out.desks[id], desks[id])
                      /\ desks[id].updated_at < now =>
                            out.desks[id].updated_at > desks[id].updated_at

C1_ClassroomUpdatedAt ==
    \A id \in DOMAIN classrooms, update \in AllClassroomUpdates :
        \A gen \in UpdateGens(update) :
            LET out == update_classroom(desks, classrooms, id, update, gen, now, now)
            IN  Success(out) =>
                    /\ out.classrooms[id].updated_at = now
                    /\ update.fields_set = {} =>
                          /\ SameButUpdatedAt(out.classrooms[id], classrooms[id])
                          /\ classrooms[id].updated_at < now =>
                                out.classrooms[id].updated_at > classrooms[id].updated_at

\* C1: a successful PartialUpdate(id, patch) on a desk or a classroom sets
\* updated_at to the current time; with the empty patch every other field is
\* as it was, and updated_at is greater than before once the clock has moved.
C1_PartialUpdateSetsUpdatedAt == C1_DeskUpdatedAt /\ C1_ClassroomUpdatedAt

\* ---- the parts of C2
C2_DeskReplaceCreates ==
    \A id \in All.ids \ DOMAIN desks, desk \in AllDeskCreates :
        LET out == replace_desk(desks, classrooms, id, desk, now, now)
            got == get_desk(out.desks, out.classrooms, id)
        IN  /\ Success(out)
            /\ id \in DOMAIN out.desks
            /\ got.status = 200
            /\ got.result.id = id
            /\ got.result.label = desk.label
            /\ got.result.hand_config = desk.hand_config

C2_ClassroomReplaceCreates ==
    \A id \in All.ids \ DOMAIN classrooms, classroom \in AllClassroomCreates :
        LET out == replace_classroom(desks, classrooms, id, classroom, <<>>, now, now)
            got == get_classrooom(out.desks, out.classrooms, id)
        IN  /\ Success(out)
            /\ id \in DOMAIN out.classrooms
            /\ got.status = 200
            /\ got.result.id = id
            /\ got.result.room_no = classroom.room_no

\* C2: ReplaceOrCreate(id, body) on an id absent from the store succeeds and
\* inserts a record into that store under the path id, whatever id the body
\* carries; a Get(id) that follows returns it.
C2_ReplaceOrCreateInserts == C2_DeskReplaceCreates /\ C2_ClassroomReplaceCreates

\* ---- the parts of C3
Given(v, filter) == filter = None \/ v = filter

DeskMatches(a, q) == Given(a.label, q[1]) /\ Given(a.hand_config, q[2])

ClassroomMatches(p, q) ==
    /\ Given(p.room_no, q[1])
    /\ Given(p.building, q[2])
    /\ Given(p.university, q[3])
    /\ q[4] = None \/ \E i \in 1..Len(p.desks) : p.desks[i].label = q[4]
    /\ q[5] = None \/ \E i \in 1..Len(p.desks) : p.desks[i].hand_config = q[5]

C3_DeskList ==
    \A q \in DeskQueries :
        LET out == list_desks(desks, classrooms, q[1], q[2])
        IN  /\ out.status = 200
            /\ out.result = {a \in Values(desks) : DeskMatches(a, q)}

C3_ClassroomList ==
    \A q \in ClassroomQueries :
        LET out == list_classrooms(desks, classrooms, q[1], q[2], q[3], q[4], q[5])
        IN  /\ out.status = 200
            /\ out.result = {p \in Values(classrooms) : ClassroomMatches(p, q)}

\* C3: List on a store returns exactly the records of that store that match
\* every filter given: desks by label and hand_config; classrooms by room_no,
\* building, university, and by label/hand_config of at least one embedded
\* desk.  With no filter it returns all the records of the store.
C3_ListReturnsMatching == C3_DeskList /\ C3_ClassroomList

\* ---- the parts of C4
PatchedField(new, old, update, f) ==
    new[f] = IF f \in update.fields_set THEN update[f] ELSE old[f]

DesksAsSent(desks_new, items) ==
    /\ Len(desks_new) = Len(items)
    /\ \A i \in 1..Len(items) :
          \A f \in items[i].fields_set : desks_new[i][f] = items[i][f]

C4_DeskPatch ==
    \A id \in DOMAIN desks, update \in AllDeskUpdates :
        LET out == update_desk(desks, classrooms, id, update, now, now)
        IN  Success(out) =>
                /\ PatchedField(out.desks[id], desks[id], update, "label")
                /\ PatchedField(out.desks[id], desks[id], update, "hand_config")
                /\ out.desks[id].id = desks[id].id
                /\ out.desks[id].created_at = desks[id].created_at

C4_ClassroomPatch ==
    \A id \in DOMAIN classrooms, update \in AllClassroomUpdates :
        \A gen \in UpdateGens(update) :
            LET out == update_classroom(desks, classrooms, id, update, gen, now, now)
                new == out.classrooms[id]
                old == classrooms[id]
            IN  Success(out) =>
                    /\ PatchedField(new, old, update, "room_no")
                    /\ PatchedField(new, old, update, "building")
                    /\ PatchedField(new, old, update, "university")
                    /\ IF "desks" \in update.fields_set
                       THEN DesksAsSent(new.desks, update.desks.items)
                       ELSE new.desks = old.desks
                    /\ new.id = old.id
                    /\ new.created_at = old.created_at

\* C4: a successful PartialUpdate(id, patch) gives each field present in the
\* patch the patch's value and leaves every field the patch omits, and id and
\* created_at, as stored; a desks field of a classroom patch replaces the
\* whole embedded list by the list sent (each desk has the label, hand_config
\* and, when sent, the id of the desk sent at its place), with no merge.
C4_PartialUpdateMerges == C4_DeskPatch /\ C4_ClassroomPatch

\* a PATCH has just succeeded, and on the stored records a patch of one field
\* changes that field of a desk, and a patch of desks replaces the two
\* embedded desks of a classroom by none
C4_Witness ==
    /\ last.op \in {"update_desk", "update_classroom"}
    /\ last.status = 200
    /\ \E id \in DOMAIN desks, update \in AllDeskUpdates :
          /\ update.fields_set = {"label"}
          /\ LET out == update_desk(desks, classrooms, id, update, now, now)
             IN  Success(out) /\ out.desks[id].label # desks[id].label
    /\ \E id \in DOMAIN classrooms, update \in AllClassroomUpdates :
          /\ update.fields_set = {"desks"}
          /\ Len(classrooms[id].desks) = 2
          /\ LET out == update_classroom(desks, classrooms, id, update, <<>>, now, now)
             IN  Success(out) /\ out.classrooms[id].desks = <<>>

\* the records of store S other than id are those of store T
OthersSame(S, T, id) ==
    /\ DOMAIN S \ {id} = DOMAIN T \ {id}
    /\ \A k \in DOMAIN S \ {id} : S[k] = T[k]

\* ---- the parts of C5
DesksOfBody(desks_new, instances) ==
    /\ Len(desks_new) = Len(instances)
    /\ \A i \in 1..Len(instances) :
          /\ desks_new[i].id = instances[i].id
          /\ desks_new[i].label = instances[i].label
          /\ desks_new[i].hand_config = instances[i].hand_config

C5_DeskReplace ==
    \A id \in DOMAIN desks, desk \in AllDeskCreates :
        LET out == replace_desk(desks, classrooms, id, desk, now, now)
            new == out.desks[id]
        IN  /\ out.status = 200
            /\ new.label = desk.label
            /\ new.hand_config = desk.hand_config
            /\ new.id = id
            /\ new.created_at = desks[id].created_at
            /\ new.updated_at = now
            /\ OthersSame(out.desks, desks, id)
            /\ out.classrooms = classrooms
            /\ \A t \in now..MaxTime :
                  LET again == replace_desk(out.desks, out.classrooms, id, desk, t, t)
                  IN  /\ again.status = 200
                      /\ SameButUpdatedAt(again.desks[id], new)
                      /\ again.desks[id].updated_at = t
                      /\ OthersSame(again.desks, out.desks, id)
                      /\ again.classrooms = out.classrooms

C5_ClassroomReplace ==
    \A id \in DOMAIN classrooms, classroom \in AllClassroomCreates :
        LET out == replace_classroom(desks, classrooms, id, classroom, <<>>, now, now)
            new == out.classrooms[id]
        IN  /\ out.status = 200
            /\ new.room_no = classroom.room_no
            /\ new.building = classroom.building
            /\ new.university = classroom.university
            /\ DesksOfBody(new.desks, classroom.desks)
            /\ new.id = id
            /\ new.created_at = classrooms[id].created_at
            /\ new.updated_at = now
            /\ OthersSame(out.classrooms, classrooms, id)
            /\ out.desks = desks
            /\ \A t \in now..MaxTime :
                  LET again == replace_classroom(out.desks, out.classrooms, id,
                                                 classroom, <<>>, t, t)
                  IN  /\ again.status = 200
                      /\ SameButUpdatedAt(again.classrooms[id], new)
                      /\ again.classrooms[id].updated_at = t
                      /\ OthersSame(again.classrooms, out.classrooms, id)
                      /\ again.desks = out.desks

C6_CreateDesk ==
    \A desk \in AllDeskCreates, t2 \in now..MaxTime :
        LET out == create_desk(desks, classrooms, desk, now, t2)
            got == get_desk(out.desks, out.classrooms, desk.id)
        IN  /\ out.classrooms = classrooms
            /\ IF desk.id \in DOMAIN desks
               THEN out.status = 400 /\ out.desks = desks
               ELSE /\ out.status = 201
                    /\ DOMAIN out.desks = DOMAIN desks \cup {desk.id}
                    /\ OthersSame(out.desks, desks, desk.id)
                    /\ got.status = 200
                    /\ got.result.id = desk.id
                    /\ got.result.label = desk.label
                    /\ got.result.hand_config = desk.hand_config

\* a POST /desks has just failed with 400 on a store of two desks
C6_Witness ==
    /\ last = Response("create_desk", 400)
    /\ DOMAIN desks = {"u1", "u2"}
    /\ desks["u1"].label # desks["u2"].label

\* C7: Create on the Classroom Store with an id already stored fails with
\* Conflict (400), and the record stored under that id, its created_at
\* included, stays as it is.
C7_CreateClassroomConflict ==
    \A classroom \in AllClassroomCreates, t2 \in now..MaxTime :
        classroom.id \in DOMAIN classrooms =>
            LET out == create_classroom(desks, classrooms, classroom, <<>>, now, t2)
            IN  /\ out.status = 400
                /\ out.classrooms = classrooms
                /\ out.desks = desks

\* ---- the parts of C8
Untouched(out) == out.desks = desks /\ out.classrooms = classrooms

NotFound(out) == out.status = 404 /\ Untouched(out)

C8_DeskNotFound ==
    \A id \in All.ids \ DOMAIN desks :
        /\ NotFound(get_desk(desks, classrooms, id))
        /\ NotFound(delete_desk(desks, classrooms, id))
        /\ \A update \in AllDeskUpdates :
              NotFound(update_desk(desks, classrooms, id, update, now, now))

C8_ClassroomNotFound ==
    \A id \in All.ids \ DOMAIN classrooms :
        /\ NotFound(get_classrooom(desks, classrooms, id))
        /\ NotFound(delete_classroom(desks, classrooms, id))
        /\ \A update \in AllClassroomUpdates :
              \A gen \in UpdateGens(update) :
                  NotFound(update_classroom(desks, classrooms, id, update, gen, now, now))

C8_DeskDelete ==
    \A id \in DOMAIN desks :
        LET out == delete_desk(desks, classrooms, id)
        IN  /\ out.status = 200
            /\ DOMAIN out.desks = DOMAIN desks \ {id}
            /\ OthersSame(out.desks, desks, id)
            /\ out.classrooms = classrooms
            /\ get_desk(out.desks, out.classrooms, id).status = 404

C8_ClassroomDelete ==
    \A id \in DOMAIN classrooms :
        LET out == delete_classroom(desks, classrooms, id)
        IN  /\ out.status = 200
            /\ DOMAIN out.classrooms = DOMAIN classrooms \ {id}
            /\ OthersSame(out.classrooms, classrooms, id)
            /\ out.desks = desks
            /\ get_classrooom(out.desks, out.classrooms, id).status = 404

\* C8: Get, PartialUpdate and Delete on an id absent from the store fail with
\* NotFound (404) and leave both stores as they were; Delete(id) on a stored
\* id removes that record and no other, and a Get(id) that follows is 404.
C8_NotFoundAndDelete ==
    C8_DeskNotFound /\ C8_ClassroomNotFound /\ C8_DeskDelete /\ C8_ClassroomDelete

\* a DELETE has just succeeded and left the other record of its store, and
\* the other store holds a record too
C8_Witness ==
    /\ last.op \in {"delete_desk", "delete_classroom"}
    /\ last.status = 200
    /\ Cardinality(DOMAIN desks) = 1
    /\ Cardinality(DOMAIN classrooms) = 1

\* ---- the parts of C9
C9_StoredDesksValid ==
    /\ \A id \in DOMAIN desks : desks[id].hand_config \in {"Left", "Right"}
    /\ \A id \in DOMAIN classrooms :
          \A i \in 1..Len(classrooms[id].desks) :
              classrooms[id].desks[i].hand_config \in {"Left", "Right"}

BadHand(d) == d.hand_config \notin {"Left", "Right"}

BadList(l) == ~l.is_none /\ \E i \in 1..Len(l.items) : BadHand(l.items[i])

\* a body of POST or PUT, or a classroom patch, that carries such a value
\* fails the validation of its model
C9_BadBodyRejected ==
    /\ \A body \in AllDeskBodies : BadHand(body) => ~DeskCreate_ok(body)
    /\ \A body \in AllClassroomBodies : BadList(body.desks) => ~ClassroomCreate_ok(body)
    /\ \A body \in AllClassroomPatches :
          "desks" \in body.fields_set /\ BadList(body.desks) => ~ClassroomUpdate_ok(body)

C9_BadValueRejected ==
    /\ C9_BadBodyRejected
    /\ \A id \in DOMAIN desks, update \in AllDeskUpdates :
          "hand_config" \in update.fields_set /\ BadHand(update) =>
              LET out == update_desk(desks, classrooms, id, update, now, now)
              IN  ~Success(out) /\ Untouched(out)

\* C9: whatever the requests served, Create, PartialUpdate, ReplaceOrCreate and
\* Delete, patches with hand_config "Up" or null among them, every desk of the
\* Desk Store and every desk embedded in a stored classroom has hand_config
\* Left or Right; a request that carries another value is rejected (the body
\* fails the validation of its model, or the handler ends in an error) and
\* leaves both stores as they were.
C9_HandConfigLeftOrRight == C9_StoredDesksValid /\ C9_BadValueRejected

\* a PATCH /desks/{id} has just ended in an error, a desk and a classroom
\* with embedded desks are stored, and a patch of hand_config to "Up" on the
\* stored desk ends so
C9_Witness ==
    /\ last = Response("update_desk", 500)
    /\ \E id \in DOMAIN classrooms : classrooms[id].desks # <<>>
    /\ \E id \in DOMAIN desks :
          update_desk(desks, classrooms, id,
                      [label |-> None, hand_config |-> "Up", fields_set |-> {"hand_config"}],
                      now, now).status = 500

\* ---- the parts of C10
SameAnswer(a, b) == a.status = b.status /\ (Success(a) => a.result = b.result)

ClassroomOp(a, b) ==
    SameAnswer(a, b) /\ a.classrooms = b.classrooms /\ a.desks = desks

DeskOp(a, b) ==
    SameAnswer(a, b) /\ a.desks = b.desks /\ a.classrooms = classrooms

C10_ClassroomOps ==
    /\ \A c \in AllClassroomCreates :
          /\ ClassroomOp(create_classroom(desks, classrooms, c, <<>>, now, now),
                         create_classroom(EmptyDict, classrooms, c, <<>>, now, now))
          /\ \A id \in All.ids :
                ClassroomOp(replace_classroom(desks, classrooms, id, c, <<>>, now, now),
                            replace_classroom(EmptyDict, classrooms, id, c, <<>>, now, now))
    /\ \A id \in All.ids :
          /\ ClassroomOp(get_classrooom(desks, classrooms, id),
                         get_classrooom(EmptyDict, classrooms, id))
          /\ ClassroomOp(delete_classroom(desks, classrooms, id),
                         delete_classroom(EmptyDict, classrooms, id))
          /\ \A update \in AllClassroomUpdates :
                \A gen \in UpdateGens(update) :
                    ClassroomOp(
                        update_classroom(desks, classrooms, id, update, gen, now, now),
                        update_classroom(EmptyDict, classrooms, id, update, gen, now, now))
    /\ \A q \in ClassroomQueries :
          ClassroomOp(list_classrooms(desks, classrooms, q[1], q[2], q[3], q[4], q[5]),
                      list_classrooms(EmptyDict, classrooms, q[1], q[2], q[3], q[4], q[5]))

C10_DeskOps ==
    /\ \A d \in AllDeskCreates :
          /\ DeskOp(create_desk(desks, classrooms, d, now, now),
                    create_desk(desks, EmptyDict, d, now, now))
          /\ \A id \in All.ids :
                DeskOp(replace_desk(desks, classrooms, id, d, now, now),
                       replace_desk(desks, EmptyDict, id, d, now, now))
    /\ \A id \in All.ids :
          /\ DeskOp(get_desk(desks, classrooms, id), get_desk(desks, EmptyDict, id))
          /\ DeskOp(delete_desk(desks, classrooms, id), delete_desk(desks, EmptyDict, id))
          /\ \A update \in AllDeskUpdates :
                DeskOp(update_desk(desks, classrooms, id, update, now, now),
                       update_desk(desks, EmptyDict, id, update, now, now))
    /\ \A q \in DeskQueries :
          DeskOp(list_desks(desks, classrooms, q[1], q[2]),
                 list_desks(desks, EmptyDict, q[1], q[2]))

\* C10: the two stores are independent: what a Classroom operation answers and
\* does to the Classroom Store is what it would be with an empty Desk Store,
\* and it leaves the Desk Store as it is; what a Desk operation answers and
\* does to the Desk Store is what it would be with an empty Classroom Store,
\* and it leaves the Classroom Store, embedded desks included, as it is.
C10_StoresIndependent == C10_ClassroomOps /\ C10_DeskOps

\* ---- the parts of C12
\* every key of store S maps to a record with that id and updated_at >= created_at
WellFormed(S) ==
    \A k \in DOMAIN S : S[k].id = k /\ S[k].updated_at >= S[k].created_at

BothWellFormed(out) == WellFormed(out.desks) /\ WellFormed(out.classrooms)

\* the create and replace bodies of the universe Two, as the routes parse them
TwoDeskCreates == DeskCreates(Two)

TwoClassroomCreates == ClassroomCreates(Two)

\* the stores left by any create or replace of two ids served now, which
\* reads the clock again at t2 >= now; a body id other than the path id is
\* among them
C12_DeskRequests ==
    \A t2 \in now..MaxTime, desk \in TwoDeskCreates :
        /\ BothWellFormed(create_desk(desks, classrooms, desk, now, t2))
        /\ \A id \in Two.ids :
              BothWellFormed(replace_desk(desks, classrooms, id, desk, now, t2))

C12_ClassroomRequests ==
    \A t2 \in now..MaxTime, c \in TwoClassroomCreates :
        /\ BothWellFormed(create_classroom(desks, classrooms, c, <<>>, now, t2))
        /\ \A id \in Two.ids :
              BothWellFormed(replace_classroom(desks, classrooms, id, c, <<>>, now, t2))

\* C12: with a clock that never goes back, in every reachable state (after
\* any creates, patches, replaces and deletes) every record of either store
\* has updated_at >= created_at and is stored under its own id, and every
\* create or replace leaves the stores so: the id of a stored record never
\* changes.
C12_TimestampsAndIds ==
    /\ WellFormed(desks) /\ WellFormed(classrooms)
    /\ C12_DeskRequests /\ C12_ClassroomRequests

\* the clock has moved and a classroom patch has just succeeded; a desk and a
\* classroom are stored, the desk with updated_at later than created_at
C12_Witness ==
    /\ last = Response("update_classroom", 200)
    /\ now > 0
    /\ classrooms # EmptyDict
    /\ \E k \in DOMAIN desks : desks[k].updated_at > desks[k].created_at

\* ---- the parts of C11
\* r is a whole desk record, stored under id
Complete(r, id) ==
    /\ DOMAIN r = {"id", "label", "hand_config", "created_at", "updated_at"}
    /\ r.id = id
    /\ DeskRead_ok(r)

\* thread t has finished a request of handler op
Done(t, op) == threads[t].pc = "done" /\ threads[t].op = op

\* C11: with the handlers running on threads and no lock, a Get or List that
\* runs while other threads create, patch, replace or delete the record
\* answers with a whole record (the one stored before or the one stored after
\* the mutation, never a mix) or, for Get, with NotFound (404); it never ends
\* in another error.
C11_ReadsAtomic ==
    \A t \in Threads :
        /\ Done(t, "get_desk") =>
              /\ threads[t].status \in {200, 404}
              /\ threads[t].status = 200 =>
                    Complete(threads[t].result, threads[t].desk_id)
        /\ Done(t, "list_desks") =>
              /\ threads[t].status = 200
              /\ \A r \in threads[t].result : Complete(r, r.id)

\* ---- the parts of C13
\* thread t takes a step
Steps(t) == threads'[t].pc # threads[t].pc

\* an id that is absent (never stored, or deleted) is stored again only by a
\* step of create_desk or replace_desk
C13_NoReinsert ==
    \A id \in One.ids :
        id \notin DOMAIN desks /\ id \in DOMAIN desks' =>
            \E t \in Threads :
                Steps(t) /\ threads[t].op \in {"create_desk", "replace_desk"}

\* a PartialUpdate ends with 200 or NotFound (its patches are valid ones)
C13_UpdateEnds ==
    \A t \in Threads :
        Steps(t) /\ threads[t].op = "update_desk" /\ threads'[t].pc = "done" =>
            threads'[t].status \in {200, 404}

\* thread t stores its patched record while thread u, patching other fields of
\* the same id, has stored its own and not yet returned: the record stored has
\* both changes
C13_BothChanges ==
    \A t \in Threads : \A u \in Threads \ {t} :
        /\ At(t, "update_desk", "store") /\ Steps(t)
        /\ At(u, "update_desk", "return")
        /\ threads[t].desk_id = threads[u].desk_id
        /\ threads[t].update.fields_set \cap threads[u].update.fields_set = {}
        => LET id == threads[t].desk_id
           IN  /\ id \in DOMAIN desks'
               /\ \A f \in threads[t].update.fields_set :
                     desks'[id][f] = threads[t].update[f]
               /\ \A f \in threads[u].update.fields_set :
                     desks'[id][f] = threads[u].update[f]

\* C13: under every interleaving of the handlers' statements, an id that
\* Delete has removed stays absent until a Create or ReplaceOrCreate stores
\* it: a PartialUpdate that passed its existence check before the Delete does
\* not store the record again and ends with no error but NotFound; and of two
\* overlapping PartialUpdates of disjoint fields of one id, both changes are
\* in the record stored last.
C13_DeleteAndUpdateRaces ==
    [][C13_NoReinsert /\ C13_UpdateEnds /\ C13_BothChanges]_vars

====
